---- MODULE Spec2Model ----
(***************************************************************************)
(* Share-link subsystem of GoManagerApi: the shares table, the share       *)
(* entity's validity predicates, and the HTTP handlers CreateShare,        *)
(* DeleteShare and AccessShare running as concurrent requests over the     *)
(* table.                                                                  *)
(*                                                                         *)
(* A handler is split into steps only where it touches the table more than *)
(* once: AccessShare reads the row (GetByToken) and later writes it        *)
(* (IncrementDownloads); DeleteShare reads (GetByID) and later deletes.    *)
(* Everything a handler computes between two table operations is local to  *)
(* the request and is folded into the step of the preceding operation.     *)
(*                                                                         *)
(* The table is a persistent database: the server opens whatever rows an   *)
(* earlier run or the migration script (scripts/setup.sh, which copies the *)
(* shares table row by row) left there.  Init therefore ranges over tables *)
(* holding at most one such row, any row the schema admits over the small  *)
(* field domains below.                                                    *)
(***************************************************************************)
EXTENDS Integers, Sequences, FiniteSets, TLC

\* ----------------------------------------------------------------- bounds
NReq == 2          \* HTTP requests served in one behaviour
MaxTime == 1       \* the wall clock runs 0..MaxTime
MaxCap == 1        \* stored max_downloads values are nil or 0..MaxCap
MaxShares == 3     \* ids uuid.New() hands out are 1..MaxShares
MaxSegs == 3       \* a path string has at most MaxSegs elements

\* ------------------------------------------------------- optional values
\* A Go nil pointer / SQL NULL is the empty sequence, a set value <<v>>.
Nil == <<>>
Some(v) == <<v>>

\* ------------------------------------------------------ entity constants
ShareTypePublic == "public"
ShareTypePassword == "password"
PermissionView == "view"
PermissionDownload == "download"

\* ---------------------------------------------------- file storage backend
\* The storage tree the file service resolves share paths against: one
\* directory, one file in it, and one path that names nothing.
DirPath == "docs"
FilePath == "docs/report.pdf"
GhostPath == "docs/gone.txt"
StoredPaths == {DirPath, FilePath, GhostPath}

PathKind(p) ==
    IF p = DirPath \/ p = "" THEN "dir"
    ELSE IF p = FilePath THEN "file"
    ELSE "none"

\* service.ListFiles: succeeds exactly on a directory (os.ReadDir fails on
\* a file and on a missing path).
ListFilesOk(p) == PathKind(p) = "dir"

\* service.GetFileForDownload: ErrNotFound when the path is absent,
\* ErrIsDirectory on a directory, the full path of a file otherwise.
GetFileForDownloadOk(p) == PathKind(p) = "file"

\* ------------------------------------------------------------- principals
Users == {"alice", "bob"}
Secret == "s3cr3t"

RoleAdmin == "admin"
RoleUser == "user"
RoleViewer == "viewer"

\* Role.CanShare
CanShare(role) == role = RoleAdmin \/ role = RoleUser

\* The role of each account: alice is a regular user, bob a viewer.
RoleOf(u) == IF u = "alice" THEN RoleUser ELSE RoleViewer

WrongSecret == "wrong"

\* ------------------------------------------------ filesystem repository
\* A path string is its "/"-separated elements and whether it starts with
\* "/".  The elements a request may carry: empty (a doubled slash), ".",
\* "..", a name that begins with two dots, and an ordinary name.
DotDotName == "..x"
Elements == {"", ".", "..", DotDotName, "docs"}

RECURSIVE SeqsUpTo(_)
SeqsUpTo(n) ==
    IF n = 0 THEN {<<>>}
    ELSE SeqsUpTo(n - 1)
            \cup {Append(q, e) : q \in {x \in SeqsUpTo(n - 1) : Len(x) = n - 1},
                                  e \in Elements}

PathStrings == [rooted : BOOLEAN, segs : SeqsUpTo(MaxSegs)]

\* filepath.Clean, one element at a time: empty and "." elements go, ".."
\* removes the element before it, is dropped at the root of a rooted path
\* and is kept at the start of a relative one.
CleanStep(rooted, stack, e) ==
    IF e \in {"", "."} THEN stack
    ELSE IF e # ".." THEN Append(stack, e)
    ELSE IF stack # <<>> /\ stack[Len(stack)] # ".."
    THEN SubSeq(stack, 1, Len(stack) - 1)
    ELSE IF rooted THEN stack
    ELSE Append(stack, "..")

RECURSIVE CleanFrom(_, _, _)
CleanFrom(rooted, stack, segs) ==
    IF segs = <<>> THEN stack
    ELSE CleanFrom(rooted, CleanStep(rooted, stack, Head(segs)), Tail(segs))

\* filepath.Clean: an empty relative result is the string ".".
Clean(p) ==
    LET stack == CleanFrom(p.rooted, <<>>, p.segs)
    IN  [rooted |-> p.rooted,
         segs |-> IF stack = <<>> /\ ~p.rooted THEN <<".">> ELSE stack]

\* strings.HasPrefix(cleaned, ".."), cleaned having lost its leading "/".
HasDotDotPrefix(segs) == segs # <<>> /\ segs[1] \in {"..", DotDotName}

\* sanitizePath without the test for "..".
sanitizePathNoCheck(p) == Clean(p).segs

\* sanitizePath: Clean, drop the leading "/", and "" for what still begins
\* with "..".  The result is a relative path.
sanitizePath(p) ==
    LET cleaned == Clean(p).segs
    IN  IF HasDotDotPrefix(cleaned) THEN <<>> ELSE cleaned

\* STORAGE_PATH's default, "./storage".
BasePath == <<".", "storage">>

\* getFullPath: filepath.Join(basePath, sanitized), which cleans the joined
\* path.
getFullPath(p) ==
    Clean([rooted |-> FALSE, segs |-> BasePath \o sanitizePath(p)]).segs

\* ------------------------------------------------------------ Share entity
\* IsExpired with the comparison made inclusive (not After but "not Before").
IsExpiredInclusive(s, t) ==
    IF s.expiresAt = Nil THEN FALSE ELSE t >= s.expiresAt[1]

\* IsExpired: false without an expiry, else "now is after expiresAt".
IsExpired(s, t) ==
    IF s.expiresAt = Nil THEN FALSE ELSE t > s.expiresAt[1]

\* HasReachedMaxDownloads with the comparison made strict.
HasReachedMaxDownloadsStrict(s) ==
    IF s.maxDownloads = Nil THEN FALSE ELSE s.downloads > s.maxDownloads[1]

\* HasReachedMaxDownloads: false without a cap, else downloads >= cap.
HasReachedMaxDownloads(s) ==
    IF s.maxDownloads = Nil THEN FALSE ELSE s.downloads >= s.maxDownloads[1]

IsValid(s, t) ==
    s.isActive /\ ~IsExpired(s, t) /\ ~HasReachedMaxDownloads(s)

\* ------------------------------------------------------------ shares table
\* The INSERT against a table whose token column lost its UNIQUE constraint.
InsertAcceptedNoUnique(tbl, s) ==
    \A x \in tbl : x.id # s.id

\* The table is a set of rows.  PRIMARY KEY(id) and UNIQUE(token) are what
\* the INSERT enforces, not a property of the representation.
InsertAccepted(tbl, s) ==
    /\ \A x \in tbl : x.id # s.id
    /\ \A x \in tbl : x.token # s.token

\* shareRepository.Create's INSERT: the row as given, or an error and no
\* change when a constraint rejects it.
Create(tbl, s) ==
    IF InsertAccepted(tbl, s) THEN tbl \cup {s} ELSE tbl

\* SELECT ... WHERE token = ? : the matching rows (none = ErrShareNotFound).
GetByToken(tbl, token) == {s \in tbl : s.token = token}

\* SELECT ... WHERE id = ?
GetByID(tbl, id) == {s \in tbl : s.id = id}

\* The query with ORDER BY created_at ASC.
GetByUserAscending(tbl, userID) ==
    LET rows == {s \in tbl : s.createdBy = userID}
    IN  {q \in [1..Cardinality(rows) -> rows] :
            /\ \A s \in rows : \E i \in DOMAIN q : q[i] = s
            /\ \A i, j \in DOMAIN q : i < j => q[i].createdAt <= q[j].createdAt}

\* SELECT ... WHERE created_by = ? ORDER BY created_at DESC : the results
\* the query may give, rows with equal created_at coming in either order.
GetByUser(tbl, userID) ==
    LET rows == {s \in tbl : s.createdBy = userID}
    IN  {q \in [1..Cardinality(rows) -> rows] :
            /\ \A s \in rows : \E i \in DOMAIN q : q[i] = s
            /\ \A i, j \in DOMAIN q : i < j => q[i].createdAt >= q[j].createdAt}

\* DELETE FROM shares WHERE id = ?
Delete(tbl, id) == {s \in tbl : s.id # id}

\* The UPDATE with its WHERE clause forgotten.
IncrementDownloadsNoWhere(tbl, id) ==
    {[s EXCEPT !.downloads = @ + 1] : s \in tbl}

\* UPDATE shares SET downloads = downloads + 1 WHERE id = ? : one statement.
IncrementDownloads(tbl, id) ==
    {IF s.id = id THEN [s EXCEPT !.downloads = @ + 1] ELSE s : s \in tbl}

\* What a repository method returns as its error.
NoErr == "nil"
ErrShareNotFound == "share not found"
ErrConstraint == "UNIQUE constraint failed"

\* GetByID and GetByToken: sql.ErrNoRows becomes ErrShareNotFound.
LookupErr(found) == IF found = {} THEN ErrShareNotFound ELSE NoErr

\* RowsAffected not looked at.
RowsAffectedErrIgnored(tbl, id) == NoErr

\* Update, Delete and IncrementDownloads: no row affected is
\* ErrShareNotFound.
RowsAffectedErr(tbl, id) ==
    IF GetByID(tbl, id) = {} THEN ErrShareNotFound ELSE NoErr

\* The UPDATE is rejected when it would give the row a token another row has.
UpdateAccepted(tbl, s) == \A x \in tbl : x.id # s.id => x.token # s.token

\* UPDATE shares SET token, path, share_type, password, permission,
\* expires_at, max_downloads, downloads, is_active WHERE id = ? : every
\* column but id, created_by and created_at is taken from the entity.
Update(tbl, s) ==
    IF ~UpdateAccepted(tbl, s) THEN tbl
    ELSE {IF x.id = s.id
          THEN [s EXCEPT !.createdBy = x.createdBy, !.createdAt = x.createdAt]
          ELSE x : x \in tbl}

UpdateErr(tbl, s) ==
    IF GetByID(tbl, s.id) # {} /\ ~UpdateAccepted(tbl, s) THEN ErrConstraint
    ELSE RowsAffectedErr(tbl, s.id)

\* --------------------------------------------------------------- responses
\* What a handler writes: the HTTP status, the envelope's message, and what
\* the body carries.  files is "absent" (no such key), "null" (key present,
\* nil slice) or "entries" (a directory listing).
SendError(msg, status) ==
    [status |-> status, message |-> msg, kind |-> "error",
     path |-> "", permission |-> "", files |-> "absent"]

\* The password prompt with the target's listing attached.
PasswordRequiredWithFiles(s) ==
    [status |-> 200, message |-> "Password required", kind |-> "requiresPassword",
     path |-> s.path, permission |-> "",
     files |-> IF ListFilesOk(s.path) THEN "entries" ELSE "absent"]

PasswordRequired(s) ==
    [status |-> 200, message |-> "Password required", kind |-> "requiresPassword",
     path |-> s.path, permission |-> "", files |-> "absent"]

FileList(s, files) ==
    [status |-> 200, message |-> "", kind |-> "listing",
     path |-> s.path, permission |-> s.permission, files |-> files]

ServeFile(s) ==
    [status |-> 200, message |-> "", kind |-> "file",
     path |-> s.path, permission |-> "", files |-> "absent"]

ShareCreated(s) ==
    [status |-> 200, message |-> "Share created successfully", kind |-> "share",
     path |-> s.path, permission |-> s.permission, files |-> "absent"]

\* Share.ToResponse: the row without createdBy and password, with the URL
\* built from the token.
ToResponse(s) ==
    [id |-> s.id, token |-> s.token, path |-> s.path,
     shareType |-> s.shareType, permission |-> s.permission,
     expiresAt |-> s.expiresAt, maxDownloads |-> s.maxDownloads,
     downloads |-> s.downloads, createdAt |-> s.createdAt,
     isActive |-> s.isActive, url |-> "/s/" \o s.token]

ShareInfo(s) ==
    [status |-> 200, message |-> "", kind |-> "share",
     path |-> s.path, permission |-> s.permission, files |-> "absent"]

ShareList ==
    [status |-> 200, message |-> "", kind |-> "shares",
     path |-> "", permission |-> "", files |-> "absent"]

\* What a direct call of a repository method gives back: its error.
RepoResult(err) ==
    [status |-> 0, message |-> err, kind |-> "repo",
     path |-> "", permission |-> "", files |-> "absent"]

ShareDeleted ==
    [status |-> 200, message |-> "Share deleted successfully", kind |-> "none",
     path |-> "", permission |-> "", files |-> "absent"]

NoResponse ==
    [status |-> 0, message |-> "", kind |-> "none",
     path |-> "", permission |-> "", files |-> "absent"]

\* ------------------------------------------------- AccessShare, step by step
\* The liveness check with the cap tested before the other two.
CheckLivenessCapFirst(s, t) ==
    IF HasReachedMaxDownloads(s) THEN SendError("Maximum downloads reached", 410)
    ELSE IF ~s.isActive THEN SendError("Share is no longer active", 410)
    ELSE IF IsExpired(s, t) THEN SendError("Share has expired", 410)
    ELSE NoResponse

\* The liveness check with the expiry test left out.
CheckLivenessNoExpiry(s, t) ==
    IF ~s.isActive THEN SendError("Share is no longer active", 410)
    ELSE IF HasReachedMaxDownloads(s) THEN SendError("Maximum downloads reached", 410)
    ELSE NoResponse

\* Liveness check without the check of the cap.
CheckLivenessNoCap(s, t) ==
    IF ~s.isActive THEN SendError("Share is no longer active", 410)
    ELSE IF IsExpired(s, t) THEN SendError("Share has expired", 410)
    ELSE NoResponse

\* Liveness check: the first failing check ends the request with 410 Gone
\* and its own message; NoResponse when the share passes all three.
CheckLiveness(s, t) ==
    IF ~s.isActive THEN SendError("Share is no longer active", 410)
    ELSE IF IsExpired(s, t) THEN SendError("Share has expired", 410)
    ELSE IF HasReachedMaxDownloads(s) THEN SendError("Maximum downloads reached", 410)
    ELSE NoResponse

\* The secret gate with the comparison inverted.
SecretGateInverted(s, method, body) ==
    IF s.shareType # ShareTypePassword THEN NoResponse
    ELSE IF method = "GET" THEN PasswordRequired(s)
    ELSE IF body = Nil THEN SendError("Invalid request body", 400)
    ELSE IF body[1] = s.password THEN SendError("Invalid password", 401)
    ELSE NoResponse

\* Secret gate of a password share.  body is Nil when the JSON body does
\* not decode, <<p>> when it decodes to password p.  The submitted password
\* is compared with the stored column as it is.
SecretGate(s, method, body) ==
    IF s.shareType # ShareTypePassword THEN NoResponse
    ELSE IF method = "GET" THEN PasswordRequired(s)
    ELSE IF body = Nil THEN SendError("Invalid request body", 400)
    ELSE IF body[1] # s.password THEN SendError("Invalid password", 401)
    ELSE NoResponse

\* Resolution of the target: a directory is listed at once; a path that is
\* neither directory nor file is 404; NoResponse means "a file: go on".
ResolveTarget(s) ==
    IF ListFilesOk(s.path) THEN FileList(s, "entries")
    ELSE IF ~GetFileForDownloadOk(s.path) THEN SendError("Shared content not found", 404)
    ELSE NoResponse

\* AccessShare up to (not including) IncrementDownloads: the row read, and
\* the response written, NoResponse when the handler goes on to increment.
AccessResolve(tbl, t, method, token, body) ==
    IF method \notin {"GET", "POST"}
    THEN [snap |-> Nil, resp |-> SendError("Method not allowed", 405)]
    ELSE IF token = ""
    THEN [snap |-> Nil, resp |-> SendError("Share token is required", 400)]
    ELSE IF GetByToken(tbl, token) = {}
    THEN [snap |-> Nil, resp |-> SendError("Share not found", 404)]
    ELSE LET s == CHOOSE x \in GetByToken(tbl, token) : TRUE
             live == CheckLiveness(s, t)
             gate == SecretGate(s, method, body)
         IN  [snap |-> Some(s),
              resp |-> IF live # NoResponse THEN live
                       ELSE IF gate # NoResponse THEN gate
                       ELSE ResolveTarget(s)]

\* The file served whatever the permission.
AccessDeliverAnyPermission(s) == ServeFile(s)

\* AccessShare after IncrementDownloads: the file is served for download
\* permission; otherwise the handler falls through to the listing response
\* with the nil files slice.
AccessDeliver(s) ==
    IF s.permission = PermissionDownload THEN ServeFile(s) ELSE FileList(s, "null")

\* ------------------------------------------------------------- CreateShare
\* The entity with the table's column default for permission ('view').
NewShareSchemaDefault(u, req, id, t) ==
    [id |-> id,
     token |-> "",
     path |-> req.path,
     createdBy |-> u,
     shareType |-> IF req.shareType = "" THEN ShareTypePublic ELSE req.shareType,
     password |-> req.password,
     permission |-> IF req.permission = "" THEN PermissionView ELSE req.permission,
     expiresAt |-> req.expiresAt,
     maxDownloads |-> req.maxDownloads,
     downloads |-> 0,
     isActive |-> TRUE,
     createdAt |-> t]

\* The entity CreateShare builds from the decoded request (defaults
\* applied), as Create persists it: Create fills in id and createdAt; the
\* handler sets neither Token nor Downloads, so both keep Go's zero value.
NewShare(u, req, id, t) ==
    [id |-> id,
     token |-> "",
     path |-> req.path,
     createdBy |-> u,
     shareType |-> IF req.shareType = "" THEN ShareTypePublic ELSE req.shareType,
     password |-> req.password,
     permission |-> IF req.permission = "" THEN PermissionDownload ELSE req.permission,
     expiresAt |-> req.expiresAt,
     maxDownloads |-> req.maxDownloads,
     downloads |-> 0,
     isActive |-> TRUE,
     createdAt |-> t]

\* The checks without the one on the password.
ValidateCreateNoPassword(req) ==
    IF req.path = "" THEN SendError("Path is required", 400)
    ELSE IF ~GetFileForDownloadOk(req.path) /\ ~ListFilesOk(req.path)
    THEN SendError("Path not found", 404)
    ELSE NoResponse

\* The checks without the lookup of the path.
ValidateCreateNoLookup(req) ==
    IF req.path = "" THEN SendError("Path is required", 400)
    ELSE IF (IF req.shareType = "" THEN ShareTypePublic ELSE req.shareType) = ShareTypePassword
            /\ req.password = ""
    THEN SendError("Password is required for password-protected shares", 400)
    ELSE NoResponse

\* The checks CreateShare makes before it builds the entity: the error
\* response of the first failing one, NoResponse when the request passes.
ValidateCreate(req) ==
    IF req.path = "" THEN SendError("Path is required", 400)
    ELSE IF ~GetFileForDownloadOk(req.path) /\ ~ListFilesOk(req.path)
    THEN SendError("Path not found", 404)
    ELSE IF (IF req.shareType = "" THEN ShareTypePublic ELSE req.shareType) = ShareTypePassword
            /\ req.password = ""
    THEN SendError("Password is required for password-protected shares", 400)
    ELSE NoResponse

\* ------------------------------------------- DeleteShare and GetShareInfo
\* The lookup with the ownership test left out.
CheckOwnershipSkipped(found, u) ==
    IF found = {} THEN SendError("Share not found", 404) ELSE NoResponse

\* GetByID and the ownership test both handlers start with: 404 when no
\* row has the id, 403 when the row is someone else's, NoResponse when the
\* requester owns it.
CheckOwnership(found, u) ==
    IF found = {} THEN SendError("Share not found", 404)
    ELSE IF (CHOOSE x \in found : TRUE).createdBy # u
    THEN SendError("Permission denied", 403)
    ELSE NoResponse

\* ------------------------------------------------------------------- state
VARIABLES
    shares,     \* the shares table: a set of rows
    now,        \* the wall clock time.Now() reads
    nextId,     \* the next id uuid.New() returns (ids are never reused)
    reqs,       \* per request: where its handler stands, and its locals
    out,        \* the response written last, with the request it answers
    delivered   \* per share id: how many responses streamed the file

vars == <<shares, now, nextId, reqs, out, delivered>>

Reqs == 1..NReq
Ids == 1..MaxShares

\* ------------------------------------------------------------------ inputs
NoCreate ==
    [path |-> "", shareType |-> "", password |-> "", permission |-> "",
     expiresAt |-> Nil, maxDownloads |-> Nil]

\* Bodies CreateShare decodes in this specification.
CreateInputs ==
    {[NoCreate EXCEPT !.path = FilePath],
     [NoCreate EXCEPT !.path = DirPath, !.shareType = ShareTypePassword,
                      !.password = Secret, !.permission = PermissionView],
     [NoCreate EXCEPT !.path = FilePath, !.shareType = ShareTypePassword],
     [NoCreate EXCEPT !.path = GhostPath, !.maxDownloads = Some(1)]}

\* Bodies CreateShare decodes in the specification of creation alone:
\* shareType and permission are strings, so a body may carry any value.
CreateRequests ==
    {[NoCreate EXCEPT !.path = p, !.shareType = ty, !.password = pw,
                      !.permission = pm] :
        p \in {FilePath, GhostPath},
        ty \in {"", ShareTypePublic, ShareTypePassword, "link"},
        pw \in {"", Secret},
        pm \in {"", PermissionView, "edit"}}
    \cup {NoCreate,
          [NoCreate EXCEPT !.shareType = ShareTypePassword],
          [NoCreate EXCEPT !.path = DirPath]}

SeedToken == "tok1"
OtherToken == "tok2"

\* Entities a caller of the repository passes to Update.
UpdateEntities ==
    {[id |-> i, token |-> tk, path |-> FilePath, createdBy |-> "alice",
      shareType |-> ShareTypePublic, password |-> "",
      permission |-> PermissionDownload, expiresAt |-> Nil,
      maxDownloads |-> Nil, downloads |-> d, isActive |-> ac,
      createdAt |-> ca] :
        i \in {1, 2}, tk \in {SeedToken, OtherToken}, d \in {0, 1},
        ac \in BOOLEAN, ca \in 0..MaxTime}
Tokens == {SeedToken, "", "nope"}

\* Method and decoded body of an AccessShare request (the body is read on
\* POST only).
AccessInputs ==
    {<<"GET", Nil>>, <<"PUT", Nil>>}
        \cup {<<"POST", b>> : b \in {Nil, Some(Secret), Some(WrongSecret)}}

\* Rows the table may hold when the server starts.
SeedShares ==
    {[id |-> 1, token |-> SeedToken, path |-> p, createdBy |-> "alice",
      shareType |-> ty, password |-> IF ty = ShareTypePassword THEN Secret ELSE "",
      permission |-> pm, expiresAt |-> ex, maxDownloads |-> mx,
      downloads |-> 0, isActive |-> ac, createdAt |-> 0] :
        p \in StoredPaths, ty \in {ShareTypePublic, ShareTypePassword},
        pm \in {PermissionView, PermissionDownload},
        ex \in {Nil, Some(0)},
        mx \in {Nil} \cup {Some(k) : k \in 0..MaxCap},
        ac \in BOOLEAN}

Idle ==
    [pc |-> "idle", op |-> "", user |-> "", method |-> "", token |-> "",
     body |-> Nil, id |-> 0, snap |-> Nil, at |-> 0]

Done == [Idle EXCEPT !.pc = "done"]

NoOutput ==
    [req |-> 0, op |-> "", user |-> "", method |-> "", token |-> "",
     body |-> Nil, id |-> 0, creq |-> NoCreate, snap |-> Nil, at |-> 0,
     resp |-> NoResponse]

\* The part of Init every specification shares.
InitRest ==
    /\ now = 0
    /\ nextId = 2
    /\ reqs = [r \in Reqs |-> Idle]
    /\ out = NoOutput
    /\ delivered = [i \in Ids |-> 0]

\* Any seed row, or an empty table.
InitAccess ==
    /\ shares \in {{}} \cup {{s} : s \in SeedShares}
    /\ InitRest

\* An empty table, or one live seed row offering the file for download.
Init ==
    /\ shares \in {{}} \cup {{s} : s \in {x \in SeedShares :
                        /\ x.isActive /\ x.expiresAt = Nil /\ x.path = FilePath
                        /\ x.permission = PermissionDownload}}
    /\ InitRest

\* A fresh database: the migration has created the table and nothing is in it.
InitCreate ==
    /\ shares = {}
    /\ InitRest

\* A table with one share in any state of its life: a public download share
\* of the file written by the import, or a share CreateShare stored earlier.
LifeShares ==
    {s \in SeedShares : /\ s.path = FilePath /\ s.shareType = ShareTypePublic
                        /\ s.permission = PermissionDownload}
        \cup {NewShare("alice", [NoCreate EXCEPT !.path = FilePath], 1, 0)}

InitLife ==
    /\ shares \in {{s} : s \in LifeShares}
    /\ InitRest

\* Request r arrives: requests take the slots in order.
Arrives(r) ==
    /\ reqs[r].pc = "idle"
    /\ \A q \in Reqs : q < r => reqs[q].pc # "idle"

\* ----------------------------------------------------------------- actions
Tick ==
    /\ now < MaxTime
    /\ now' = now + 1
    /\ UNCHANGED <<shares, nextId, reqs, out, delivered>>

\* AccessShare from its entry to the response, or to the point where it is
\* about to call IncrementDownloads.
AccessShare(r, method, token, body) ==
    /\ Arrives(r)
    /\ LET o == AccessResolve(shares, now, method, token, body)
       IN  IF o.resp = NoResponse
           THEN /\ reqs' = [reqs EXCEPT ![r] =
                        [pc |-> "increment", op |-> "access", user |-> "",
                         method |-> method, token |-> token, body |-> body,
                         id |-> o.snap[1].id, snap |-> o.snap, at |-> now]]
                /\ out' = out
           ELSE /\ reqs' = [reqs EXCEPT ![r] = Done]
                /\ out' = [req |-> r, op |-> "access", user |-> "",
                           method |-> method, token |-> token, body |-> body,
                           id |-> IF o.snap = Nil THEN 0 ELSE o.snap[1].id,
                           creq |-> NoCreate, snap |-> o.snap, at |-> now,
                           resp |-> o.resp]
    /\ UNCHANGED <<shares, now, nextId, delivered>>

\* h.shareRepo.IncrementDownloads(share.ID), its error dropped, then the
\* response.
AccessIncrement(r) ==
    /\ reqs[r].pc = "increment"
    /\ LET s == reqs[r].snap[1]
           resp == AccessDeliver(s)
       IN  /\ shares' = IncrementDownloads(shares, s.id)
           /\ out' = [req |-> r, op |-> "access", user |-> "",
                      method |-> reqs[r].method, token |-> reqs[r].token,
                      body |-> reqs[r].body, id |-> s.id, creq |-> NoCreate,
                      snap |-> reqs[r].snap, at |-> reqs[r].at, resp |-> resp]
           /\ delivered' = IF resp.kind = "file"
                           THEN [delivered EXCEPT ![s.id] = @ + 1]
                           ELSE delivered
    /\ reqs' = [reqs EXCEPT ![r] = Done]
    /\ UNCHANGED <<now, nextId>>

\* CreateShare for authenticated user u: one table operation, one step.
CreateShare(r, u, req) ==
    /\ Arrives(r)
    /\ LET bad == ValidateCreate(req)
           s == NewShare(u, req, nextId, now)
       IN  IF bad # NoResponse
           THEN /\ out' = [NoOutput EXCEPT !.req = r, !.op = "create", !.user = u,
                                           !.creq = req, !.at = now, !.resp = bad]
                /\ UNCHANGED <<shares, nextId>>
           ELSE /\ nextId <= MaxShares
                /\ shares' = Create(shares, s)
                /\ nextId' = nextId + 1
                /\ out' = [NoOutput EXCEPT !.req = r, !.op = "create", !.user = u,
                                           !.creq = req, !.at = now, !.id = s.id,
                                           !.snap = Some(s),
                                           !.resp = IF InsertAccepted(shares, s)
                                                    THEN ShareCreated(s)
                                                    ELSE SendError("Failed to create share", 500)]
    /\ reqs' = [reqs EXCEPT ![r] = Done]
    /\ UNCHANGED <<now, delivered>>

\* DeleteShare up to the ownership check: GetByID, then 404, 403 or go on.
DeleteShare(r, u, id) ==
    /\ Arrives(r)
    /\ LET found == GetByID(shares, id)
           resp == CheckOwnership(found, u)
       IN  IF resp = NoResponse
           THEN /\ reqs' = [reqs EXCEPT ![r] =
                        [Idle EXCEPT !.pc = "delete", !.op = "delete", !.user = u,
                                     !.id = id, !.at = now,
                                     !.snap = Some(CHOOSE x \in found : TRUE)]]
                /\ out' = out
           ELSE /\ reqs' = [reqs EXCEPT ![r] = Done]
                /\ out' = [NoOutput EXCEPT !.req = r, !.op = "delete", !.user = u,
                                           !.id = id, !.at = now, !.resp = resp]
    /\ UNCHANGED <<shares, now, nextId, delivered>>

\* DeleteShare's h.shareRepo.Delete(shareID): any error, ErrShareNotFound
\* included, is answered 500.
DeleteExec(r) ==
    /\ reqs[r].pc = "delete"
    /\ shares' = Delete(shares, reqs[r].id)
    /\ out' = [NoOutput EXCEPT !.req = r, !.op = "delete", !.user = reqs[r].user,
                               !.id = reqs[r].id, !.at = reqs[r].at,
                               !.snap = reqs[r].snap,
                               !.resp = IF GetByID(shares, reqs[r].id) = {}
                                        THEN SendError("Failed to delete share", 500)
                                        ELSE ShareDeleted]
    /\ reqs' = [reqs EXCEPT ![r] = Done]
    /\ UNCHANGED <<now, nextId, delivered>>

\* GetShareInfo for authenticated user u: GetByID, the ownership test, and
\* the share's safe representation.
GetShareInfo(r, u, id) ==
    /\ Arrives(r)
    /\ LET found == GetByID(shares, id)
           resp == CheckOwnership(found, u)
       IN  out' = [NoOutput EXCEPT !.req = r, !.op = "info", !.user = u,
                                   !.id = id, !.at = now,
                                   !.snap = IF resp = NoResponse
                                            THEN Some(ToResponse(CHOOSE x \in found : TRUE))
                                            ELSE Nil,
                                   !.resp = IF resp = NoResponse
                                            THEN ShareInfo(CHOOSE x \in found : TRUE)
                                            ELSE resp]
    /\ reqs' = [reqs EXCEPT ![r] = Done]
    /\ UNCHANGED <<shares, now, nextId, delivered>>

\* ListUserShares for authenticated user u: GetByUser, each row converted
\* to its safe representation, in the order the query gave.
ListUserShares(r, u) ==
    /\ Arrives(r)
    /\ \E q \in GetByUser(shares, u) :
           out' = [NoOutput EXCEPT !.req = r, !.op = "list", !.user = u,
                                   !.at = now,
                                   !.snap = [i \in DOMAIN q |-> ToResponse(q[i])],
                                   !.resp = ShareList]
    /\ reqs' = [reqs EXCEPT ![r] = Done]
    /\ UNCHANGED <<shares, now, nextId, delivered>>

Next ==
    \/ Tick
    \/ \E r \in Reqs, in \in AccessInputs, tk \in Tokens : AccessShare(r, in[1], tk, in[2])
    \/ \E r \in Reqs : AccessIncrement(r)
    \/ \E r \in Reqs, u \in Users, req \in CreateInputs : CreateShare(r, u, req)
    \/ \E r \in Reqs, u \in Users, id \in Ids : DeleteShare(r, u, id)
    \/ \E r \in Reqs : DeleteExec(r)

Spec == Init /\ [][Next]_vars

\* The owner's side of the API: creating, deleting, inspecting and listing.
NextOwner ==
    \/ Tick
    \/ \E r \in Reqs, u \in Users, req \in CreateInputs : CreateShare(r, u, req)
    \/ \E r \in Reqs, u \in Users, id \in Ids : DeleteShare(r, u, id)
    \/ \E r \in Reqs : DeleteExec(r)
    \/ \E r \in Reqs, u \in Users, id \in Ids : GetShareInfo(r, u, id)
    \/ \E r \in Reqs, u \in Users : ListUserShares(r, u)

SpecOwner == Init /\ [][NextOwner]_vars

\* A direct call of a repository method: the table after it, and its
\* error (with the row a lookup found) as the result.
RepoCall(r, op, id, token, tbl, row, err) ==
    /\ Arrives(r)
    /\ shares' = tbl
    /\ out' = [NoOutput EXCEPT !.req = r, !.op = op, !.id = id, !.token = token,
                               !.at = now, !.snap = row, !.resp = RepoResult(err)]
    /\ reqs' = [reqs EXCEPT ![r] = Done]
    /\ UNCHANGED <<now, nextId, delivered>>

RepoGetByID(r, id) ==
    LET found == GetByID(shares, id)
    IN  RepoCall(r, "GetByID", id, "", shares,
                 IF found = {} THEN Nil ELSE Some(CHOOSE x \in found : TRUE),
                 LookupErr(found))

RepoGetByToken(r, token) ==
    LET found == GetByToken(shares, token)
    IN  RepoCall(r, "GetByToken", 0, token, shares,
                 IF found = {} THEN Nil ELSE Some(CHOOSE x \in found : TRUE),
                 LookupErr(found))

RepoUpdate(r, s) ==
    RepoCall(r, "Update", s.id, s.token, Update(shares, s), Some(s),
             UpdateErr(shares, s))

RepoDelete(r, id) ==
    RepoCall(r, "Delete", id, "", Delete(shares, id), Nil,
             RowsAffectedErr(shares, id))

RepoIncrementDownloads(r, id) ==
    RepoCall(r, "IncrementDownloads", id, "", IncrementDownloads(shares, id), Nil,
             RowsAffectedErr(shares, id))

\* The repository called directly, as any code holding the interface may.
NextStore ==
    \/ \E r \in Reqs, id \in Ids : RepoGetByID(r, id)
    \/ \E r \in Reqs, tk \in Tokens : RepoGetByToken(r, tk)
    \/ \E r \in Reqs, s \in UpdateEntities : RepoUpdate(r, s)
    \/ \E r \in Reqs, id \in Ids : RepoDelete(r, id)
    \/ \E r \in Reqs, id \in Ids : RepoIncrementDownloads(r, id)

SpecStore == Init /\ [][NextStore]_vars

\* Every operation of the HTTP interface on one share through its life.
NextLife ==
    \/ Tick
    \/ \E r \in Reqs, in \in AccessInputs, tk \in Tokens : AccessShare(r, in[1], tk, in[2])
    \/ \E r \in Reqs : AccessIncrement(r)
    \/ \E r \in Reqs, u \in Users : CreateShare(r, u, [NoCreate EXCEPT !.path = FilePath])
    \/ \E r \in Reqs, u \in Users, id \in Ids : DeleteShare(r, u, id)
    \/ \E r \in Reqs : DeleteExec(r)
    \/ \E r \in Reqs, u \in Users, id \in Ids : GetShareInfo(r, u, id)
    \/ \E r \in Reqs, u \in Users : ListUserShares(r, u)

SpecLife == InitLife /\ [][NextLife]_vars

\* The file service resolving the path of a share: ListFiles through
\* List, GetFileForDownload through IsDirectory and GetFilePath, each by
\* getFullPath.
ResolvePath(r, op) ==
    /\ Arrives(r)
    /\ out' = [out EXCEPT !.req = r, !.op = op, !.at = now,
                          !.snap = getFullPath(out.creq.path)]
    /\ reqs' = [reqs EXCEPT ![r] = Done]
    /\ UNCHANGED <<shares, now, nextId, delivered>>

\* The path of the share the requests are about, any string of PathStrings.
InitPath ==
    /\ shares = {}
    /\ now = 0
    /\ nextId = 2
    /\ reqs = [r \in Reqs |-> Idle]
    /\ out \in {[NoOutput EXCEPT !.creq = [NoCreate EXCEPT !.path = p]] :
                    p \in PathStrings}
    /\ delivered = [i \in Ids |-> 0]

NextPath ==
    \/ \E r \in Reqs : ResolvePath(r, "ListFiles")
    \/ \E r \in Reqs : ResolvePath(r, "GetFileForDownload")

SpecPath == InitPath /\ [][NextPath]_vars

\* Creation alone, with every body of CreateRequests.
NextCreate ==
    \/ Tick
    \/ \E r \in Reqs, u \in Users, req \in CreateRequests : CreateShare(r, u, req)

SpecCreate == InitCreate /\ [][NextCreate]_vars

\* Requests against a table nobody creates in or deletes from: every seed
\* row, AccessShare alone.
NextAccess ==
    \/ Tick
    \/ \E r \in Reqs, in \in AccessInputs, tk \in Tokens : AccessShare(r, in[1], tk, in[2])
    \/ \E r \in Reqs : AccessIncrement(r)

SpecAccess == InitAccess /\ [][NextAccess]_vars

\* ================================================================== claims
\* Vocabulary of the claims, stated on a row and a clock reading.
Expired(s, t) == s.expiresAt # Nil /\ t > s.expiresAt[1]
CapReached(s) == s.maxDownloads # Nil /\ s.downloads >= s.maxDownloads[1]
Live(s, t) == s.isActive /\ ~Expired(s, t) /\ ~CapReached(s)

GoneInactive == SendError("Share is no longer active", 410)
GoneExpired == SendError("Share has expired", 410)
GoneMaxDownloads == SendError("Maximum downloads reached", 410)

\* out answers an AccessShare request that resolved its token to a row.
Resolved(o) == o.op = "access" /\ o.snap # Nil

\* This step writes a response.
Responds == out'.req # out.req

\* C1: every row with maxDownloads set has downloads <= maxDownloads, in
\* every reachable state, under any interleaving of AccessShare requests.
C1_DownloadsWithinCap ==
    \A s \in shares : s.maxDownloads # Nil => s.downloads <= s.maxDownloads[1]

\* C2: on a live public download share of a file with maxDownloads = 1 and
\* downloads = 0, concurrent AccessShare requests deliver the file exactly
\* once: never a second delivery, downloads never above 1, and a request is
\* turned away with "Maximum downloads reached" only after that delivery.
C2_ExactlyOneDelivery ==
    \A s \in shares :
        (/\ s.shareType = ShareTypePublic /\ s.permission = PermissionDownload
         /\ s.path = FilePath /\ s.isActive /\ s.expiresAt = Nil
         /\ s.maxDownloads = Some(1))
        => /\ delivered[s.id] <= 1
           /\ s.downloads <= 1
           /\ (Resolved(out) /\ out.id = s.id /\ out.resp = GoneMaxDownloads)
                  => (delivered[s.id] = 1 /\ s.downloads = 1)

\* C3: IncrementDownloads is atomic: the step in which a request calls it
\* adds exactly 1 to the downloads the table holds at that moment for that
\* id (whatever the request read earlier) and changes no other column and
\* no other row, so K calls add exactly K.
C3_IncrementAtomic ==
    [][\A r \in Reqs :
          (reqs[r].pc = "increment" /\ reqs'[r].pc = "done")
          => /\ \A s \in shares :
                    IF s.id = reqs[r].id
                    THEN [s EXCEPT !.downloads = s.downloads + 1] \in shares'
                    ELSE s \in shares'
             /\ Cardinality(shares') = Cardinality(shares)]_vars

\* Two requests were in flight together: the one answered last had read
\* downloads = 0, and the table holds 2.
C3_Witness ==
    /\ Resolved(out) /\ out.resp.kind = "file" /\ out.snap[1].downloads = 0
    /\ \E s \in shares : s.id = out.id /\ s.downloads = 2

\* C4: a resolved share that fails a liveness check is answered 410 with
\* the message of the first failing check in the order inactive, expired,
\* max downloads; a share that passes all three is not answered 410; the
\* three messages are pairwise different.
C4_LivenessOrder ==
    /\ GoneInactive # GoneExpired
    /\ GoneInactive # GoneMaxDownloads
    /\ GoneExpired # GoneMaxDownloads
    /\ Resolved(out) =>
          LET s == out.snap[1]
              t == out.at
          IN  /\ ~s.isActive => out.resp = GoneInactive
              /\ (s.isActive /\ Expired(s, t)) => out.resp = GoneExpired
              /\ (s.isActive /\ ~Expired(s, t) /\ CapReached(s))
                     => out.resp = GoneMaxDownloads
              /\ Live(s, t) => out.resp.status # 410

\* A share that is inactive, expired and at its cap is answered "inactive".
C4_Witness ==
    /\ Resolved(out)
    /\ ~out.snap[1].isActive /\ Expired(out.snap[1], out.at) /\ CapReached(out.snap[1])
    /\ out.resp = GoneInactive

\* C5: a GET or POST AccessShare that finds the share not valid at the
\* moment it resolves it ends in 410 Gone: no listing, no file, no password
\* prompt, and the table (downloads included) is left as it was.
C5_InvalidRefused ==
    [][(Responds /\ Resolved(out') /\ ~Live(out'.snap[1], out'.at))
       => /\ out'.resp.status = 410
          /\ out'.resp.kind = "error"
          /\ out'.resp.files = "absent"
          /\ shares' = shares
          /\ delivered' = delivered]_vars

\* A POST with the right password on a password share past its cap is
\* turned away.
C5_Witness ==
    /\ Resolved(out) /\ out.method = "POST" /\ out.body = Some(Secret)
    /\ out.snap[1].shareType = ShareTypePassword
    /\ out.snap[1].isActive /\ CapReached(out.snap[1])
    /\ out.resp.status = 410

\* C6 as stated: a resolved share whose expiresAt is in the past is always
\* answered 410 "Share has expired", whatever isActive and downloads are.
C6_ExpiredWhateverActive ==
    (Resolved(out) /\ Expired(out.snap[1], out.at)) => out.resp = GoneExpired

\* C6 amended: a GET or POST AccessShare on a resolved share is answered
\* 410 "Share has expired" exactly when the share is active and the clock
\* is strictly after expiresAt, whatever downloads is; an expired share
\* that is inactive is answered 410 "Share is no longer active".
C6_ExpiredWhenActive ==
    Resolved(out) =>
        /\ out.resp = GoneExpired
              <=> (out.snap[1].isActive /\ Expired(out.snap[1], out.at))
        /\ (Expired(out.snap[1], out.at) /\ ~out.snap[1].isActive)
              => out.resp = GoneInactive

\* An active share past its expiry and at its cap is answered "expired".
C6_Witness ==
    /\ Resolved(out)
    /\ out.snap[1].isActive /\ Expired(out.snap[1], out.at) /\ CapReached(out.snap[1])
    /\ out.resp = GoneExpired

\* C7: a POST on a valid password share with a password other than the
\* stored one is answered 401 "Invalid password", with no listing and no
\* file, and leaves the table as it was (so downloads never moves towards
\* the cap).
C7_WrongPassword ==
    [][(/\ Responds /\ Resolved(out') /\ out'.method = "POST"
        /\ Live(out'.snap[1], out'.at)
        /\ out'.snap[1].shareType = ShareTypePassword
        /\ out'.body # Nil /\ out'.body[1] # out'.snap[1].password)
       => /\ out'.resp = SendError("Invalid password", 401)
          /\ shares' = shares
          /\ delivered' = delivered]_vars

\* A wrong password on a capped share that is one download from its cap.
C7_Witness ==
    /\ Resolved(out) /\ out.method = "POST" /\ out.body = Some(WrongSecret)
    /\ out.snap[1].shareType = ShareTypePassword
    /\ out.snap[1].maxDownloads = Some(1) /\ out.snap[1].downloads = 0
    /\ out.resp.status = 401
    /\ \E s \in shares : s.id = out.id /\ s.downloads = 0

\* C8: a GET on a valid password share is answered with the password-
\* required marker and the share's path and nothing else: the body is the
\* same whether the path is a directory, a file or missing, carries no
\* files key, and the table is left as it was.
C8_PasswordPrompt ==
    [][(/\ Responds /\ Resolved(out') /\ out'.method = "GET"
        /\ Live(out'.snap[1], out'.at)
        /\ out'.snap[1].shareType = ShareTypePassword)
       => /\ out'.resp = [status |-> 200, message |-> "Password required",
                          kind |-> "requiresPassword", path |-> out'.snap[1].path,
                          permission |-> "", files |-> "absent"]
          /\ shares' = shares
          /\ delivered' = delivered]_vars

\* The prompt was given for a share on a directory.
C8_Witness ==
    /\ Resolved(out) /\ out.method = "GET"
    /\ out.snap[1].shareType = ShareTypePassword /\ out.snap[1].path = DirPath
    /\ out.resp.kind = "requiresPassword"

\* An irreversible hash of a password, as bcrypt would give: never the
\* password itself.
Hash(p) == "$2a$" \o p

\* C9: after a successful CreateShare of a password share with secret p the
\* stored password is a hash of p and not p.
C9_PasswordStoredHashed ==
    (out.op = "create" /\ out.resp.kind = "share"
        /\ out.creq.shareType = ShareTypePassword)
    => \A s \in shares :
          s.id = out.id => (s.password = Hash(out.creq.password)
                            /\ s.password # out.creq.password)

\* C10: the rows of the table have pairwise different ids and pairwise
\* different tokens, after any CreateShare and DeleteShare requests.
C10_UniqueIdAndToken ==
    \A a, b \in shares : a # b => (a.id # b.id /\ a.token # b.token)

\* A CreateShare was turned away by the table while it held two rows.
C10_Witness ==
    /\ out.op = "create" /\ out.resp.status = 500
    /\ Cardinality(shares) = 2

\* A CreateShare body the handler's checks let through: a path that names
\* a file or a directory, and a secret when the type is password.
Creatable(req) ==
    /\ req.path # ""
    /\ PathKind(req.path) \in {"file", "dir"}
    /\ ~(req.shareType = ShareTypePassword /\ req.password = "")

\* C11: every CreateShare whose body passes the handler's checks succeeds,
\* whatever the table already holds, and the share it returns carries a
\* token that is not empty.
C11_CreateSucceedsWithToken ==
    (out.op = "create" /\ Creatable(out.creq))
    => /\ out.resp.kind = "share"
       /\ out.snap # Nil
       /\ out.snap[1].token # ""

\* C12: a GET AccessShare with the token CreateShare returned for a public
\* download share of an existing file without a cap delivers the file.
C12_CreatedShareReachable ==
    (/\ out.op = "access" /\ out.method = "GET"
     /\ \E s \in shares :
           /\ s.token = out.token
           /\ s.id >= 2
           /\ s.shareType = ShareTypePublic /\ s.permission = PermissionDownload
           /\ PathKind(s.path) = "file" /\ s.maxDownloads = Nil /\ s.expiresAt = Nil)
    => out.resp.kind = "file"

\* C13: a DeleteShare or GetShareInfo request of a user on a share another
\* user created is answered 403 "Permission denied", carries no share data,
\* and leaves the table as it was.
C13_ForeignForbidden ==
    [][(/\ Responds
        /\ out'.op \in {"delete", "info"}
        /\ \E s \in shares : s.id = out'.id /\ s.createdBy # out'.user)
       => /\ out'.resp = SendError("Permission denied", 403)
          /\ out'.snap = Nil
          /\ shares' = shares]_vars

C13_Witness ==
    /\ out.op = "delete"
    /\ out.resp.status = 403
    /\ \E s \in shares : s.id = out.id /\ s.createdBy # out.user

\* C14: the list ListUserShares returns holds the safe representation of
\* every stored share the requester created, each once, and of no other
\* share, with createdAt never increasing along the list.
C14_ListExactlyOwnNewestFirst ==
    [][(Responds /\ out'.op = "list")
       => LET q == out'.snap
              own == {s \in shares : s.createdBy = out'.user}
          IN  /\ Len(q) = Cardinality(own)
              /\ \A s \in own : \E i \in DOMAIN q : q[i] = ToResponse(s)
              /\ \A i, j \in DOMAIN q : i < j => q[i].createdAt >= q[j].createdAt]_vars

C14_Witness ==
    /\ out.op = "list"
    /\ Len(out.snap) = 2
    /\ out.snap[1].createdAt > out.snap[2].createdAt

\* C15: a share with view permission never has file bytes streamed: every
\* answer to an AccessShare request on it is an error, the password prompt
\* or the listing body, whether its path is a file or a directory.
C15_ViewNeverStreams ==
    /\ \A s \in shares : s.permission = PermissionView => delivered[s.id] = 0
    /\ (Resolved(out) /\ out.snap[1].permission = PermissionView)
          => out.resp.kind \in {"error", "requiresPassword", "listing"}

C15_Witness ==
    /\ Resolved(out)
    /\ out.snap[1].permission = PermissionView
    /\ PathKind(out.snap[1].path) = "file"
    /\ out.resp = FileList(out.snap[1], "null")

\* C16: for every share, downloads equals the number of AccessShare
\* requests that streamed its file: one more per delivery, and unchanged by
\* listings, view-permission accesses, password prompts and refusals.
C16_DownloadsCountDeliveries ==
    \A s \in shares : s.downloads = delivered[s.id]

\* C17: when the row is gone at the moment a request calls
\* IncrementDownloads, the request is answered with an error and no file
\* is streamed.
C17_FailedIncrementIsError ==
    [][\A r \in Reqs :
          (/\ reqs[r].pc = "increment" /\ reqs'[r].pc = "done"
           /\ GetByID(shares, reqs[r].id) = {})
          => (out'.resp.kind = "error" /\ delivered' = delivered)]_vars

\* C18: a stored share has a password exactly when its shareType is
\* password.
C18_PasswordIffPasswordType ==
    \A s \in shares : (s.password # "") <=> (s.shareType = ShareTypePassword)

\* C19: every share CreateShare stored has shareType public or password
\* and permission view or download.
C19_ClosedEnumerations ==
    [][(Responds /\ out'.op = "create")
       => \A s \in shares' \ shares :
              /\ s.shareType \in {ShareTypePublic, ShareTypePassword}
              /\ s.permission \in {PermissionView, PermissionDownload}]_vars

\* C20: a CreateShare answered with success has stored a row that is
\* active, has downloads 0 and createdBy the requester, with shareType
\* public when the body had none and permission download when the body
\* had none.
C20_CreateDefaults ==
    [][(Responds /\ out'.op = "create" /\ out'.resp.kind = "share")
       => \E s \in shares' \ shares :
              /\ s.id = out'.id
              /\ s.isActive /\ s.downloads = 0 /\ s.createdBy = out'.user
              /\ (out'.creq.shareType = "" => s.shareType = ShareTypePublic)
              /\ (out'.creq.permission = "" => s.permission = PermissionDownload)]_vars

C20_Witness ==
    /\ out.op = "create" /\ out.resp.kind = "share"
    /\ out.creq.shareType = "" /\ out.creq.permission = ""
    /\ \E s \in shares : /\ s.id = out.id /\ s.createdBy = out.user
                         /\ s.shareType = ShareTypePublic
                         /\ s.permission = PermissionDownload

\* C21: a CreateShare request with shareType password and no secret is
\* refused with a 4xx error and stores nothing; when its path exists the
\* error is the 400 "Password is required for password-protected shares".
C21_PasswordShareNeedsSecret ==
    [][(/\ Responds /\ out'.op = "create"
        /\ out'.creq.shareType = ShareTypePassword /\ out'.creq.password = "")
       => /\ out'.resp.kind = "error"
          /\ out'.resp.status \in {400, 404}
          /\ shares' = shares
          /\ (out'.creq.path # "" /\ PathKind(out'.creq.path) \in {"file", "dir"})
                => out'.resp = SendError("Password is required for password-protected shares", 400)]_vars

C21_Witness ==
    /\ out.op = "create"
    /\ out.creq.shareType = ShareTypePassword /\ out.creq.password = ""
    /\ out.creq.path = FilePath
    /\ out.resp.status = 400

\* C22: CreateShare answers 400 "Path is required" to an empty path and 404
\* "Path not found" to a path that is neither file nor directory, storing
\* nothing in both cases; every row a creation stores has a path that
\* exists.
C22_PathMustExist ==
    [][(Responds /\ out'.op = "create")
       => /\ out'.creq.path = ""
                => (out'.resp = SendError("Path is required", 400) /\ shares' = shares)
          /\ (out'.creq.path # "" /\ PathKind(out'.creq.path) = "none")
                => (out'.resp = SendError("Path not found", 404) /\ shares' = shares)
          /\ \A s \in shares' \ shares : PathKind(s.path) \in {"file", "dir"}]_vars

C22_Witness ==
    /\ out.op = "create"
    /\ out.creq.path = GhostPath
    /\ out.resp.status = 404
    /\ shares # {}

RepoOps == {"GetByID", "GetByToken", "Update", "Delete", "IncrementDownloads"}

\* C23: no step leaves a stored share with another token or createdAt than
\* it had: a row that is still in the table under its id has the token and
\* the createdAt it had before the step.
C23_IdTokenCreatedAtImmutable ==
    [][\A s \in shares : \A x \in shares' :
          x.id = s.id => (x.token = s.token /\ x.createdAt = s.createdAt)]_vars

\* C24: a lookup by an id or token no row has, and an Update, Delete or
\* IncrementDownloads on an id no row has, return ErrShareNotFound (the
\* lookups with no row), and the table is as it was.
C24_AbsentIsNotFound ==
    [][(/\ Responds /\ out'.op \in RepoOps
        /\ IF out'.op = "GetByToken"
           THEN GetByToken(shares, out'.token) = {}
           ELSE GetByID(shares, out'.id) = {})
       => /\ out'.resp = RepoResult(ErrShareNotFound)
          /\ out'.op \in {"GetByID", "GetByToken"} => out'.snap = Nil
          /\ shares' = shares]_vars

C24_Witness ==
    /\ out.op = "Delete"
    /\ out.resp = RepoResult(ErrShareNotFound)
    /\ out.id = 2
    /\ \E s \in shares : s.id = 1

\* C25: for every stored share at the current time, IsExpired is true
\* exactly when expiresAt is set and the time is strictly after it,
\* HasReachedMaxDownloads exactly when maxDownloads is set and downloads >=
\* maxDownloads, IsValid exactly when the share is active and neither holds;
\* a share whose expiresAt is in the past is expired and not valid.
C25_EntityPredicates ==
    \A s \in shares :
        /\ IsExpired(s, now) <=> (s.expiresAt # Nil /\ now > s.expiresAt[1])
        /\ HasReachedMaxDownloads(s)
              <=> (s.maxDownloads # Nil /\ s.downloads >= s.maxDownloads[1])
        /\ IsValid(s, now)
              <=> (s.isActive /\ ~IsExpired(s, now) /\ ~HasReachedMaxDownloads(s))
        /\ (s.expiresAt # Nil /\ s.expiresAt[1] < now)
              => (IsExpired(s, now) /\ ~IsValid(s, now))

C25_Witness ==
    \E s \in shares :
        /\ s.isActive
        /\ s.expiresAt # Nil /\ s.expiresAt[1] < now
        /\ s.maxDownloads = Some(0) /\ s.downloads = 0
        /\ IsExpired(s, now) /\ HasReachedMaxDownloads(s) /\ ~IsValid(s, now)

\* C26: a DeleteShare request of the owner that passed the ownership
\* lookup ends either in success or, when another request removed the
\* share first, in 404 "Share not found", never in a 500.
C26_LostDeleteIsNotFound ==
    (out.op = "delete" /\ out.snap # Nil /\ out.resp # ShareDeleted)
        => out.resp = SendError("Share not found", 404)

\* The last response is a successful DeleteShare.
DeleteSucceeded(o) == o.op = "delete" /\ o.resp = ShareDeleted

\* C27: once a DeleteShare of the owner has succeeded, an AccessShare
\* request that starts afterwards with the deleted share's token is
\* answered 404 "Share not found", GetShareInfo for its id is answered 404
\* and ListUserShares does not list it; the successful delete removes the
\* row with that id and no other.
C27_DeletedStaysGone ==
    [][/\ (/\ DeleteSucceeded(out) /\ Responds
           /\ out'.op = "access" /\ out'.method \in {"GET", "POST"}
           /\ reqs[out'.req].pc = "idle"
           /\ out'.token = out.snap[1].token)
          => out'.resp = SendError("Share not found", 404)
       /\ (DeleteSucceeded(out) /\ Responds /\ out'.op = "info" /\ out'.id = out.id)
          => out'.resp = SendError("Share not found", 404)
       /\ (DeleteSucceeded(out) /\ Responds /\ out'.op = "list")
          => \A i \in DOMAIN out'.snap : out'.snap[i].id # out.id
       /\ (Responds /\ DeleteSucceeded(out'))
          => shares' = {s \in shares : s.id # out'.id}]_vars

\* The parts of C27 that do not depend on the token.
C27_RestHolds ==
    [][/\ (DeleteSucceeded(out) /\ Responds /\ out'.op = "info" /\ out'.id = out.id)
          => out'.resp = SendError("Share not found", 404)
       /\ (DeleteSucceeded(out) /\ Responds /\ out'.op = "list")
          => \A i \in DOMAIN out'.snap : out'.snap[i].id # out.id
       /\ (Responds /\ DeleteSucceeded(out'))
          => shares' = {s \in shares : s.id # out'.id}
       /\ (/\ DeleteSucceeded(out) /\ Responds
           /\ out'.op = "access" /\ out'.method \in {"GET", "POST"}
           /\ reqs[out'.req].pc = "idle"
           /\ out'.token = out.snap[1].token /\ out'.token # "")
          => out'.resp = SendError("Share not found", 404)]_vars

\* No request with this token can be served: no row has it, or the row
\* that has it is not live.
GoneOrAbsent(tbl, t, token) == \A s \in GetByToken(tbl, token) : ~Live(s, t)

\* Request r makes AccessShare's lookup in this step.
LooksUp(r) ==
    /\ reqs[r].pc = "idle"
    /\ \/ reqs'[r].pc = "increment"
       \/ reqs'[r].pc = "done" /\ out'.req = r /\ out'.op = "access"

LookedUpToken(r) ==
    IF reqs'[r].pc = "increment" THEN reqs'[r].token ELSE out'.token

\* C28: Gone is absorbing.  A request is answered 410 only when the row
\* with its token is not live; a token whose row is not live or is missing
\* stays so under every step (create, list, info, delete, access, the
\* clock); and a request that looks such a token up is answered at once
\* with an error, 410 or 404 when its method is GET or POST, never with a
\* listing, a password prompt or the file.
C28_GoneIsAbsorbing ==
    [][/\ (Responds /\ out'.op = "access" /\ out'.resp.status = 410)
          => (out'.token # "" /\ GoneOrAbsent(shares', now', out'.token))
       /\ \A tk \in Tokens \ {""} :
             GoneOrAbsent(shares, now, tk) => GoneOrAbsent(shares', now', tk)
       /\ \A r \in Reqs :
             (/\ LooksUp(r) /\ LookedUpToken(r) # ""
              /\ GoneOrAbsent(shares, now, LookedUpToken(r)))
             => /\ reqs'[r].pc = "done"
                /\ out'.resp.kind = "error"
                /\ out'.method \in {"GET", "POST"} => out'.resp.status \in {410, 404}]_vars

\* The second request is answered 410 for a share that was inactive from
\* the start, hence for every request before it.
C28_Witness ==
    /\ out.req = 2 /\ out.op = "access"
    /\ out.resp = GoneInactive
    /\ out.at = MaxTime
    /\ \E s \in shares : s.token = out.token /\ ~s.isActive

\* The storage root as getFullPath gives it for the empty path.
StorageRoot == Clean([rooted |-> FALSE, segs |-> BasePath]).segs

\* C29: the location the file service resolves a share path to, whatever
\* ".." elements or leading "/" the path has, is the storage root or below
\* it: it begins with the root's elements and has no ".." element.
C29_PathInsideRoot ==
    out.op \in {"ListFiles", "GetFileForDownload"}
        => /\ Len(out.snap) >= Len(StorageRoot)
           /\ SubSeq(out.snap, 1, Len(StorageRoot)) = StorageRoot
           /\ \A i \in DOMAIN out.snap : out.snap[i] # ".."

C29_Witness ==
    /\ out.op = "GetFileForDownload"
    /\ out.creq.path = [rooted |-> FALSE, segs |-> <<"docs", "..", "..">>]
    /\ out.snap = StorageRoot

\* C30: a CreateShare request of a user whose role cannot share (a viewer)
\* is answered with an error and stores nothing.
C30_ViewerCannotShare ==
    [][(Responds /\ out'.op = "create" /\ ~CanShare(RoleOf(out'.user)))
       => (out'.resp.kind = "error" /\ shares' = shares)]_vars
====
